---- MODULE Spec2Model ----
(***************************************************************************)
(* Package build adapters ("easyblocks") for Blender, MVAPICH2 and PETSc.  *)
(*                                                                         *)
(* Option strings (configopts, buildopts, command lines) are sequences of  *)
(* atoms: string formatting is concatenation, cfg.update appends, and the  *)
(* substring test "x in s" is a contiguous-subsequence test.               *)
(***************************************************************************)
EXTENDS Integers, Sequences, FiniteSets, TLC

VARIABLES
    pkg,            \* which easyblock the build uses
    version,        \* self.version, a dotted version string
    cfg,            \* self.cfg: the easyconfig parameters (mutated in place)
    environ,        \* os.environ of the build process
    site,           \* what is installed on the build host (read only)
    self,           \* instance attributes set by the easyblock
    phase,          \* position in the configure/install/sanity/module lifecycle
    calls,          \* number of configure_step invocations so far
    cmds,           \* external commands run so far, in order
    out,            \* output of the external command of the last configure_step
    ec,             \* its exit code (-1: no command was run)
    err,            \* the EasyBuildError raised by the last step, or NoErr
    installed,      \* what install_step did
    custom_paths,   \* what sanity_check_step asked the framework to verify
    guesses,        \* make_module_req_guess' result
    module_txt      \* make_module_extra's environment assignments

vars == <<pkg, version, cfg, environ, site, self, phase, calls, cmds, out, ec,
          err, installed, custom_paths, guesses, module_txt>>

(***************************************************************************)
(* Bounds                                                                  *)
(***************************************************************************)
\* configure_step invocations on one configuration object
MaxCalls == 2
\* flags the easyconfig already holds in configopts (Blender)
MaxUserFlags == 1
\* paths one glob pattern may match
MaxMatches == 2

(***************************************************************************)
(* Python values and strings                                               *)
(***************************************************************************)
\* Python's None (os.getenv and get_software_root return it for "absent")
None == "<None>"

\* truth value of a string-or-None, as in "if inc and libdir and libs:"
Truthy(v) == v # None /\ v # ""

\* '%s' % v
Fmt(v) == IF v = None THEN "None" ELSE v

\* '%d' % b for a boolean option
FmtD(b) == IF b THEN "1" ELSE "0"

\* sub in s
Contains(s, sub) ==
    \E i \in 1..(Len(s) - Len(sub) + 1) : SubSeq(s, i, i + Len(sub) - 1) = sub

RECURSIVE JoinWith(_, _)
\* sep.join(parts)
JoinWith(sep, parts) ==
    IF parts = <<>> THEN <<>>
    ELSE IF Len(parts) = 1 THEN parts[1]
    ELSE parts[1] \o sep \o JoinWith(sep, Tail(parts))

\* os.path.join(a, b): an empty first part is dropped
PathJoin(a, b) == IF a = <<>> THEN b ELSE a \o <<"/">> \o b

(***************************************************************************)
(* Framework services used by the easyblocks                               *)
(***************************************************************************)
NoErr == [msg |-> "", pattern |-> <<>>, count |-> 0, matches |-> <<>>]

\* EasyBuildError(msg)
Error(msg) == [NoErr EXCEPT !.msg = msg]

\* EasyConfig.update(key, value): '%s %s ' % (prev_value, value)
Update(prev, value) == prev \o <<" ">> \o value \o <<" ">>

\* get_software_root(name)
get_software_root(name) == site.roots[name]

\* os.getenv(name)
getenv(name) == environ[name]

(***************************************************************************)
(* The machine a configure_step runs on: the part of the state it changes. *)
(* A raised exception (err # NoErr) ends the step: every later statement   *)
(* is skipped.                                                             *)
(***************************************************************************)
Machine ==
    [configopts |-> cfg.configopts, buildopts |-> cfg.buildopts,
     parallel |-> cfg.parallel, environ |-> environ,
     petsc_arch |-> self.petsc_arch, petsc_subdir |-> self.petsc_subdir,
     cmds |-> cmds, out |-> <<>>, ec |-> -1, err |-> NoErr]

Raised(m) == m.err # NoErr

\* self.cfg.update('configopts', value)
UpdOpts(m, value) ==
    IF Raised(m) THEN m ELSE [m EXCEPT !.configopts = Update(@, value)]

\* self.cfg.update('buildopts', value)
UpdBuild(m, value) ==
    IF Raised(m) THEN m ELSE [m EXCEPT !.buildopts = Update(@, value)]

\* self.log.error(msg) / raise EasyBuildError(msg)
Raise(m, e) == IF Raised(m) THEN m ELSE [m EXCEPT !.err = e]

\* run_cmd(cmd, log_all=True): runs cmd; a non-zero exit code is an error
run_cmd(m, cmd, o, code) ==
    IF Raised(m) THEN m
    ELSE [m EXCEPT !.cmds = Append(@, cmd), !.out = o, !.ec = code,
                   !.err = IF code # 0 THEN Error("cmd failed") ELSE NoErr]

(***************************************************************************)
(* The step's effects written back to the object, the configuration and    *)
(* the process                                                             *)
(***************************************************************************)
Commit(m, base) ==
    /\ cfg' = [base EXCEPT !.configopts = m.configopts, !.buildopts = m.buildopts,
                          !.parallel = m.parallel]
    /\ environ' = m.environ
    /\ self' = [self EXCEPT !.petsc_arch = m.petsc_arch,
                            !.petsc_subdir = m.petsc_subdir]
    /\ cmds' = m.cmds
    /\ out' = m.out
    /\ ec' = m.ec
    /\ err' = m.err
    /\ calls' = calls + 1
    /\ phase' = IF Raised(m) THEN "failed" ELSE "configured"

\* exit codes an external command may return
ExitCodes == {0, 1}

(***************************************************************************)
(* Blender (easyblocks/b/blender.py)                                       *)
(***************************************************************************)
\* res = glob.glob(glob_pattern)
glob(glob_pattern) == site.fs[glob_pattern]

\* variant: the error reports no count
find_glob_pattern_miscount(glob_pattern) ==
    LET res == glob(glob_pattern)
    IN  IF Len(res) # 1
        THEN [raised |-> TRUE, value |-> None,
              err |-> [msg |-> "Was expecting exactly one match",
                       pattern |-> glob_pattern, count |-> 0, matches |-> res]]
        ELSE [raised |-> FALSE, value |-> res[1], err |-> NoErr]

\* lines 39-43: the one match, or an error with pattern, count and matches
find_glob_pattern(glob_pattern) ==
    LET res == glob(glob_pattern)
    IN  IF Len(res) # 1
        THEN [raised |-> TRUE, value |-> None,
              err |-> [msg |-> "Was expecting exactly one match",
                       pattern |-> glob_pattern, count |-> Len(res), matches |-> res]]
        ELSE [raised |-> FALSE, value |-> res[1], err |-> NoErr]

\* a failed lookup raises out of configure_step
Try(m, g) == IF Raised(m) \/ ~g.raised THEN m ELSE [m EXCEPT !.err = g.err]

\* default_config_opts, in the order the dictionary is written
default_config_opts ==
    << [key |-> "WITH_INSTALL_PORTABLE", value |-> <<"OFF">>],
       [key |-> "WITH_BUILDINFO", value |-> <<"OFF">>],
       [key |-> "WITH_CPU_SSE", value |-> <<"OFF">>],
       [key |-> "CMAKE_C_FLAGS_RELEASE", value |-> <<"-D", "NDEBUG">>],
       [key |-> "CMAKE_CXX_FLAGS_RELEASE", value |-> <<"-D", "NDEBUG">>],
       [key |-> "WITH_GAMEENGINE", value |-> <<"OFF">>],
       [key |-> "WITH_SYSTEM_GLEW", value |-> <<"OFF">>] >>

\* variant: the key without its "="
DOpt_bare(key) == <<"-D", key>>
\* opt = '-D%s=' % key
DOpt(key) == <<"-D", key, "=">>

\* variant: the default is appended without the presence test
ApplyDefaultUnchecked(opts, d) == Update(opts, DOpt(d.key) \o d.value)
\* one iteration of the loop over default_config_opts
ApplyDefault(opts, d) ==
    IF ~Contains(opts, DOpt(d.key)) THEN Update(opts, DOpt(d.key) \o d.value) ELSE opts

RECURSIVE ApplyDefaultsFrom(_, _)
ApplyDefaultsFrom(opts, i) ==
    IF i > Len(default_config_opts) THEN opts
    ELSE ApplyDefaultsFrom(ApplyDefault(opts, default_config_opts[i]), i + 1)

\* for key in default_config_opts: ...
ApplyDefaults(opts) == ApplyDefaultsFrom(opts, 1)

\* get_shared_lib_ext() on the build host
get_shared_lib_ext == site.shlib_ext

\* '.'.join(get_software_version('Python').split('.')[:2])
PyShortVerTable ==
    [v \in {"2.7.11", "3.6.3", "3.6"} |->
        IF v = "2.7.11" THEN "2.7" ELSE "3.6"]

pyshortver == PyShortVerTable[site.pyver]

\* os.path.join(python_root, 'lib', 'python%s' % pyshortver, 'site-packages')
site_packages(python_root, short) ==
    <<python_root, "/", "lib", "/", "python", short, "/", "site-packages">>

NumpyPattern(python_root, short) ==
    site_packages(python_root, short) \o <<"/", "numpy-*-py", short, "-linux-x86_64.egg">>

RequestsPattern(python_root, short) ==
    site_packages(python_root, short) \o <<"/", "requests-*-py", short, ".egg">>

PythonLibPattern(python_root, short, ext) ==
    <<python_root, "/", "lib", "/", "libpython", short, "*.", ext>>

PythonIncludePattern(python_root, short) ==
    <<python_root, "/", "include", "/", "python", short, "*">>

\* variant: each flag is appended as soon as its value is known
BlenderPython_eager(m) ==
    LET python_root == get_software_root("Python")
    IN  IF ~Truthy(python_root) THEN m
        ELSE LET short == pyshortver
                 numpy_root == find_glob_pattern(NumpyPattern(python_root, short))
                 requests_root == find_glob_pattern(RequestsPattern(python_root, short))
                 python_lib ==
                     find_glob_pattern(PythonLibPattern(python_root, short, get_shared_lib_ext))
                 python_include_dir ==
                     find_glob_pattern(PythonIncludePattern(python_root, short))
                 m1 == UpdOpts(m, <<"-D", "PYTHON_VERSION", "=", short>>)
                 m2 == UpdOpts(Try(m1, numpy_root),
                               <<"-D", "PYTHON_NUMPY_PATH", "=", numpy_root.value>>)
                 m3 == UpdOpts(Try(m2, requests_root),
                               <<"-D", "PYTHON_REQUESTS_PATH", "=", requests_root.value>>)
                 m4 == UpdOpts(Try(m3, python_lib),
                               <<"-D", "PYTHON_LIBRARY", "=", python_lib.value>>)
             IN  UpdOpts(Try(m4, python_include_dir),
                         <<"-D", "PYTHON_INCLUDE_DIR", "=", python_include_dir.value>>)

\* lines 69-86: the Python paths
BlenderPython(m) ==
    LET python_root == get_software_root("Python")
    IN  IF ~Truthy(python_root) THEN m
        ELSE LET short == pyshortver
                 numpy_root == find_glob_pattern(NumpyPattern(python_root, short))
                 requests_root == find_glob_pattern(RequestsPattern(python_root, short))
                 python_lib ==
                     find_glob_pattern(PythonLibPattern(python_root, short, get_shared_lib_ext))
                 python_include_dir ==
                     find_glob_pattern(PythonIncludePattern(python_root, short))
                 m1 == Try(Try(Try(Try(m, numpy_root), requests_root), python_lib),
                           python_include_dir)
                 m2 == UpdOpts(m1, <<"-D", "PYTHON_VERSION", "=", short>>)
                 m3 == UpdOpts(m2, <<"-D", "PYTHON_LIBRARY", "=", python_lib.value>>)
                 m4 == UpdOpts(m3, <<"-D", "PYTHON_INCLUDE_DIR", "=", python_include_dir.value>>)
                 m5 == UpdOpts(m4, <<"-D", "PYTHON_NUMPY_PATH", "=", numpy_root.value>>)
             IN  UpdOpts(m5, <<"-D", "PYTHON_REQUESTS_PATH", "=", requests_root.value>>)

\* lines 88-99: OpenEXR, OpenColorIO, CUDA
BlenderOptional(m) ==
    LET openexr_root == get_software_root("OpenEXR")
        m1 == IF Truthy(openexr_root)
              THEN UpdOpts(m, <<"-D", "OPENEXR_INCLUDE_DIR", "=", openexr_root, "/", "include">>)
              ELSE m
        m2 == IF Truthy(get_software_root("OpenColorIO"))
              THEN UpdOpts(m1, <<"-D", "WITH_OPENCOLORIO", "=", "ON">>)
              ELSE m1
    IN  IF Truthy(get_software_root("CUDA"))
        THEN UpdOpts(m2, <<"-D", "WITH_CYCLES_CUDA_BINARIES", "=", "ON">>)
        ELSE m2

\* CMakeMake.configure_step: runs cmake with the assembled configopts
CMakeMake_configure_step(m, o, code) ==
    IF Raised(m) THEN m
    ELSE run_cmd(m, <<"cmake", " ">> \o m.configopts, o, code)

\* EB_Blender.configure_step, as a function of the machine
Blender_configure(m, o, code) ==
    LET m1 == [m EXCEPT !.configopts = ApplyDefaults(@)]
    IN  CMakeMake_configure_step(BlenderOptional(BlenderPython(m1)), o, code)

CanConfigure == phase \in {"ready", "configured"} /\ calls < MaxCalls

\* EB_Blender.configure_step
BlenderConfigureStep ==
    /\ pkg = "Blender"
    /\ CanConfigure
    /\ \E code \in ExitCodes :
          LET m == Blender_configure(Machine, <<>>, code)
          IN  Commit(m, [cfg EXCEPT !.separate_build_dir = TRUE])
    /\ UNCHANGED <<pkg, version, site, installed, custom_paths, guesses, module_txt>>

\* EB_Blender.sanity_check_step
BlenderSanityCheckStep ==
    /\ pkg = "Blender"
    /\ phase = "configured"
    /\ phase' = "checked"
    /\ custom_paths' = [files |-> << <<"bin", "/", "blender">> >>, dirs |-> <<>>]
    /\ UNCHANGED <<pkg, version, cfg, environ, site, self, calls, cmds, out, ec, err,
                   installed, guesses, module_txt>>


(***************************************************************************)
(* MVAPICH2 (easyblocks/m/mvapich2.py)                                     *)
(***************************************************************************)
\* variant: the optimized build is configured whatever debug says
add_configopts_fast ==
    << <<"--with-rdma=", cfg.rdma_type>>, <<"--with-thread-package=pthreads">> >>
    \o << <<"--enable-fast">> >>
    \o << <<"--enable-shared">>, <<"--enable-sharedlibs=gcc">> >>
    \o << <<"--enable-f77">>, <<"--enable-fc">>, <<"--enable-cxx">> >>
    \o (IF cfg.withmpe THEN << <<"--enable-mpe">> >> ELSE <<>>)
    \o (IF cfg.withlimic2 THEN << <<"--enable-limic2">> >> ELSE <<>>)
    \o (IF cfg.withchkpt
        THEN << <<"--enable-checkpointing">>, <<"--with-hydra-ckpointlib=blcr">> >>
        ELSE <<>>)
    \o (IF cfg.withhwloc THEN << <<"--with-hwloc">> >> ELSE <<>>)
    \o (IF Truthy(cfg.blcr_path) THEN << <<"--with-blcr=", cfg.blcr_path>> >> ELSE <<>>)
    \o (IF Truthy(cfg.blcr_inc_path)
        THEN << <<"--with-blcr-include=", cfg.blcr_inc_path>> >> ELSE <<>>)
    \o (IF Truthy(cfg.blcr_lib_path)
        THEN << <<"--with-blcr-libpath=", cfg.blcr_lib_path>> >> ELSE <<>>)

\* add_configopts, the list built by lines 77-113
add_configopts ==
    << <<"--with-rdma=", cfg.rdma_type>>, <<"--with-thread-package=pthreads">> >>
    \o (IF cfg.debug THEN << <<"--enable-fast=none">> >> ELSE << <<"--enable-fast">> >>)
    \o << <<"--enable-shared">>, <<"--enable-sharedlibs=gcc">> >>
    \o << <<"--enable-f77">>, <<"--enable-fc">>, <<"--enable-cxx">> >>
    \o (IF cfg.withmpe THEN << <<"--enable-mpe">> >> ELSE <<>>)
    \o (IF cfg.withlimic2 THEN << <<"--enable-limic2">> >> ELSE <<>>)
    \o (IF cfg.withchkpt
        THEN << <<"--enable-checkpointing">>, <<"--with-hydra-ckpointlib=blcr">> >>
        ELSE <<>>)
    \o (IF cfg.withhwloc THEN << <<"--with-hwloc">> >> ELSE <<>>)
    \o (IF Truthy(cfg.blcr_path) THEN << <<"--with-blcr=", cfg.blcr_path>> >> ELSE <<>>)
    \o (IF Truthy(cfg.blcr_inc_path)
        THEN << <<"--with-blcr-include=", cfg.blcr_inc_path>> >> ELSE <<>>)
    \o (IF Truthy(cfg.blcr_lib_path)
        THEN << <<"--with-blcr-libpath=", cfg.blcr_lib_path>> >> ELSE <<>>)

\* EB_MPICH.configure_step: runs configure with the assembled configopts
EB_MPICH_configure_step(m, o, code) ==
    IF Raised(m) THEN m
    ELSE run_cmd(m, <<"./configure", " ", "--prefix=", cfg.installdir, " ">> \o m.configopts,
                 o, code)

\* EB_MVAPICH2.configure_step, as a function of the machine
MVAPICH2_configure(m, o, code) ==
    EB_MPICH_configure_step(UpdOpts(m, JoinWith(<<" ">>, add_configopts)), o, code)

\* EB_MVAPICH2.configure_step
MVAPICH2ConfigureStep ==
    /\ pkg = "MVAPICH2"
    /\ CanConfigure
    /\ \E code \in ExitCodes : Commit(MVAPICH2_configure(Machine, <<>>, code), cfg)
    /\ UNCHANGED <<pkg, version, site, installed, custom_paths, guesses, module_txt>>

\* EB_MVAPICH2.sanity_check_step
MVAPICH2SanityCheckStep ==
    /\ pkg = "MVAPICH2"
    /\ phase = "configured"
    /\ phase' = "checked"
    /\ custom_paths' = [files |-> << <<"bin", "/", "mpiexec.mpirun_rsh">> >>]
    /\ UNCHANGED <<pkg, version, cfg, environ, site, self, calls, cmds, out, ec, err,
                   installed, guesses, module_txt>>

(***************************************************************************)
(* PETSc (easyblocks/p/petsc.py)                                           *)
(***************************************************************************)
\* the releases built here
Versions == {"2.0", "3", "3.4", "3.5", "3.5.1", "3.10"}

\* LooseVersion(vstring).version: the numeric components
LooseVersion(v) ==
    CASE v = "2.0" -> <<2, 0>>
      [] v = "3" -> <<3>>
      [] v = "3.4" -> <<3, 4>>
      [] v = "3.5" -> <<3, 5>>
      [] v = "3.5.1" -> <<3, 5, 1>>
      [] v = "3.10" -> <<3, 10>>

RECURSIVE VerLT(_, _)
\* LooseVersion.__cmp__: the component lists compare as Python lists
VerLT(a, b) ==
    IF b = <<>> THEN FALSE
    ELSE IF a = <<>> THEN TRUE
    ELSE IF a[1] < b[1] THEN TRUE
    ELSE IF a[1] > b[1] THEN FALSE
    ELSE VerLT(Tail(a), Tail(b))

VerGE(a, b) == ~VerLT(a, b)

\* LooseVersion(self.version) >= LooseVersion("3")
AtLeast3(v) == VerGE(LooseVersion(v), LooseVersion("3"))

\* variant: > in place of >=
AtLeast35_strict(v) == VerLT(LooseVersion("3.5"), LooseVersion(v))
\* LooseVersion(self.version) >= LooseVersion("3.5")
AtLeast35(v) == VerGE(LooseVersion(v), LooseVersion("3.5"))

\* str.lower() of the names used
Lower(n) ==
    CASE n = "BLACS" -> "blacs"
      [] n = "FFTW" -> "fftw"
      [] n = "ScaLAPACK" -> "scalapack"
      [] n = "SCOTCH" -> "scotch"
      [] n = "PETSc" -> "petsc"
      [] n = "UMFPACK" -> "umfpack"
      [] n = "KLU" -> "klu"
      [] n = "CHOLMOD" -> "cholmod"
      [] n = "BTF" -> "btf"
      [] n = "CCOLAMD" -> "ccolamd"
      [] n = "COLAMD" -> "colamd"
      [] n = "CAMD" -> "camd"
      [] n = "AMD" -> "amd"

\* str.upper() of the names used
Upper(n) ==
    CASE n = "BLACS" -> "BLACS"
      [] n = "FFTW" -> "FFTW"
      [] n = "ScaLAPACK" -> "SCALAPACK"

\* '%s_INC_DIR' % dep.upper() and its two siblings
IncVar(dep) ==
    CASE Upper(dep) = "BLACS" -> "BLACS_INC_DIR"
      [] Upper(dep) = "FFTW" -> "FFTW_INC_DIR"
      [] Upper(dep) = "SCALAPACK" -> "SCALAPACK_INC_DIR"

LibDirVar(dep) ==
    CASE Upper(dep) = "BLACS" -> "BLACS_LIB_DIR"
      [] Upper(dep) = "FFTW" -> "FFTW_LIB_DIR"
      [] Upper(dep) = "SCALAPACK" -> "SCALAPACK_LIB_DIR"

StaticLibsVar(dep) ==
    CASE Upper(dep) = "BLACS" -> "BLACS_STATIC_LIBS"
      [] Upper(dep) = "FFTW" -> "FFTW_STATIC_LIBS"
      [] Upper(dep) = "SCALAPACK" -> "SCALAPACK_STATIC_LIBS"

\* "--with-%s" % dep.lower()
WithArg(dep) == <<"--with-", Lower(dep)>>

\* lines 83-96: compilers and compiler flags
CompilerFlagNames(v) ==
    IF AtLeast35(v) THEN <<"--CFLAGS=", "--CXXFLAGS=", "--FFLAGS=">>
    ELSE <<"--with-cflags=", "--with-cxxflags=", "--with-fcflags=">>

Quoted(v) == <<"\"", Fmt(v), "\"">>

PetscCompilers(m) ==
    LET names == CompilerFlagNames(version)
        m1 == UpdOpts(m, <<"--with-cc=">> \o Quoted(m.environ["CC"]))
        m2 == UpdOpts(m1, <<"--with-cxx=">> \o Quoted(m.environ["CXX"])
                          \o <<" ", "--with-c++-support">>)
        m3 == UpdOpts(m2, <<"--with-fc=">> \o Quoted(m.environ["F90"]))
        m4 == UpdOpts(m3, <<names[1]>> \o Quoted(m.environ["CFLAGS"]))
        m5 == UpdOpts(m4, <<names[2]>> \o Quoted(m.environ["CXXFLAGS"]))
    IN  UpdOpts(m5, <<names[3]>> \o Quoted(m.environ["F90FLAGS"]))

\* lines 98-110: toolchain and build options
PetscBuildOptions(m) ==
    LET tc == site.toolchain
        m1 == IF tc.comp_family # "GCC" THEN UpdOpts(m, <<"--with-gnu-compilers=0">>) ELSE m
        m2 == IF tc.usempi THEN UpdOpts(m1, <<"--with-mpi=1">>) ELSE m1
        m3 == UpdOpts(m2, <<"--with-build-step-np=", Fmt(m.parallel)>>)
        m4 == UpdOpts(m3, <<"--with-shared-libraries=", FmtD(cfg.shared_libs)>>)
        m5 == UpdOpts(m4, <<"--with-debugging=", FmtD(tc.debug)>>)
        m6 == UpdOpts(m5, <<"--with-pic=", FmtD(tc.pic)>>)
    IN  UpdOpts(m6, <<"--with-x=0", " ", "--with-windows-graphics=0">>)

\* os.path.isfile(path)
isfile(path) == path \in site.files

\* variant: a failed PAPI check is passed over
PetscPapi_lenient(m) ==
    IF ~cfg.with_papi THEN m
    ELSE LET papi_inc == cfg.papi_inc
             papi_inc_file == PathJoin(papi_inc, <<"papi.h">>)
             papi_lib == cfg.papi_lib
         IN  IF isfile(papi_inc_file) /\ isfile(papi_lib)
             THEN UpdOpts(UpdOpts(UpdOpts(m, <<"--with-papi=1">>),
                                  <<"--with-papi-include=">> \o papi_inc),
                          <<"--with-papi-lib=">> \o papi_lib)
             ELSE m

\* lines 112-124: PAPI support
PetscPapi(m) ==
    IF ~cfg.with_papi THEN m
    ELSE LET papi_inc == cfg.papi_inc
             papi_inc_file == PathJoin(papi_inc, <<"papi.h">>)
             papi_lib == cfg.papi_lib
         IN  IF isfile(papi_inc_file) /\ isfile(papi_lib)
             THEN UpdOpts(UpdOpts(UpdOpts(m, <<"--with-papi=1">>),
                                  <<"--with-papi-include=">> \o papi_inc),
                          <<"--with-papi-lib=">> \o papi_lib)
             ELSE Raise(m, Error("PAPI header and/or lib not found"))

\* lines 126-130: Python extensions
PetscPython(m) ==
    IF ~Truthy(get_software_root("Python")) THEN m
    ELSE LET m1 == UpdOpts(m, <<"--with-numpy=1">>)
         IN  IF cfg.shared_libs THEN UpdOpts(m1, <<"--with-mpi4py=1">>) ELSE m1

\* variant: the flags are emitted without testing the three variables
DepFlags_always(m, dep) ==
    LET inc == m.environ[IncVar(dep)]
        libdir == m.environ[LibDirVar(dep)]
        libs == m.environ[StaticLibsVar(dep)]
        with_arg == WithArg(dep)
    IN  UpdOpts(UpdOpts(UpdOpts(m, with_arg \o <<"=1">>),
                        with_arg \o <<"-include=", Fmt(inc)>>),
                with_arg \o <<"-lib=[", Fmt(libdir), "/", Fmt(libs), "]">>)
\* the flags of one dependency resolved from the environment (lines 134-143,
\* 144-153 and the loop body 157-166)
DepFlags(m, dep) ==
    LET inc == m.environ[IncVar(dep)]
        libdir == m.environ[LibDirVar(dep)]
        libs == m.environ[StaticLibsVar(dep)]
        with_arg == WithArg(dep)
    IN  IF Truthy(inc) /\ Truthy(libdir) /\ Truthy(libs)
        THEN UpdOpts(UpdOpts(UpdOpts(m, with_arg \o <<"=1">>),
                             with_arg \o <<"-include=", inc>>),
                     with_arg \o <<"-lib=[", libdir, "/", libs, "]">>)
        ELSE m

\* the dependencies resolved from the environment for a version
EnvDeps(v) == IF AtLeast35(v) THEN <<"FFTW", "ScaLAPACK">> ELSE <<"BLACS", "FFTW", "ScaLAPACK">>

RECURSIVE DepFlagsFrom(_, _, _)
DepFlagsFrom(m, deps, i) ==
    IF i > Len(deps) THEN m ELSE DepFlagsFrom(DepFlags(m, deps[i]), deps, i + 1)

\* lines 132-166: BLACS, FFTW, ScaLAPACK
PetscMathDeps(m) == DepFlagsFrom(m, EnvDeps(version), 1)

\* variant: a missing variable is not an error
PetscBlasLapack_lenient(m) ==
    LET bl_libdir == m.environ["BLAS_LAPACK_LIB_DIR"]
        bl_libs == m.environ["BLAS_LAPACK_STATIC_LIBS"]
    IN  IF Truthy(bl_libdir) /\ Truthy(bl_libs)
        THEN UpdOpts(m, <<"--with-blas-lapack-lib=[", bl_libdir, "/", bl_libs, "]">>)
        ELSE m
\* lines 168-174: BLAS, LAPACK libraries
PetscBlasLapack(m) ==
    LET bl_libdir == m.environ["BLAS_LAPACK_LIB_DIR"]
        bl_libs == m.environ["BLAS_LAPACK_STATIC_LIBS"]
    IN  IF Truthy(bl_libdir) /\ Truthy(bl_libs)
        THEN UpdOpts(m, <<"--with-blas-lapack-lib=[", bl_libdir, "/", bl_libs, "]">>)
        ELSE Raise(m, Error("One or more environment variables for BLAS/LAPACK not defined?"))

\* the names of line 180; builddependencies() adds dictionaries, which no name equals
depfilter ==
    {"BLACS", "BLAS", "FFTW", "LAPACK", "numpy", "CMake", "mpi4py", "papi", "ScaLAPACK",
     "SuiteSparse"}

\* deps = [dep['name'] for dep in self.cfg.dependencies() if not dep['name'] in depfilter]
FilteredDeps == SelectSeq(cfg.dependencies, LAMBDA d : d \notin depfilter)

\* lines 188-191: the flag name of an additional dependency
WithDep(v, dep) ==
    IF AtLeast35(v) /\ dep = "SCOTCH" THEN <<"--with-pt", Lower(dep)>>
    ELSE <<"--with-", Lower(dep)>>

\* '%s=1 %s-dir=%s' % (withdep, withdep, deproot)
DirFlags(withdep, deproot) == withdep \o <<"=1", " ">> \o withdep \o <<"-dir=", deproot>>

RECURSIVE AdditionalDepsFrom(_, _, _)
AdditionalDepsFrom(m, deps, i) ==
    IF i > Len(deps) THEN m
    ELSE LET deproot == get_software_root(deps[i])
             m1 == IF Truthy(deproot)
                   THEN UpdOpts(m, DirFlags(WithDep(version, deps[i]), deproot))
                   ELSE m
         IN  AdditionalDepsFrom(m1, deps, i + 1)

\* lines 176-192: additional dependencies
PetscAdditionalDeps(m) == AdditionalDepsFrom(m, FilteredDeps, 1)

ss_libs == <<"UMFPACK", "KLU", "CHOLMOD", "BTF", "CCOLAMD", "COLAMD", "CAMD", "AMD">>

umfpack_names == <<"UMFPACK", "CHOLMOD", "COLAMD", "AMD">>

\* os.path.join(suitesparse, l, "Lib", "lib%s.a" % l.lower())
SSLib(suitesparse, l) == <<suitesparse, "/", l, "/", "Lib", "/", "lib", Lower(l), ".a">>

\* os.path.join(suitesparse, l, "Include")
SSInc(suitesparse, l) == <<suitesparse, "/", l, "/", "Include">>

\* [os.path.join(suitesparse, l, "Lib", "lib%s.a" % l.lower()) for l in names]
SSLibs(suitesparse, names) == [i \in DOMAIN names |-> SSLib(suitesparse, names[i])]

\* [os.path.join(suitesparse, l, "Include") for l in names]
SSIncs(suitesparse, names) == [i \in DOMAIN names |-> SSInc(suitesparse, names[i])]

\* lines 197-227: the value appended for SuiteSparse
SuiteSparseFlags(v, suitesparse) ==
    IF AtLeast35(v)
    THEN LET withdep == <<"--with-suitesparse">>
             suitesparse_libs ==
                 Append(SSLibs(suitesparse, ss_libs),
                        <<suitesparse, "/", "SuiteSparse_config", "/", "libsuitesparseconfig.a">>)
             suitesparse_inc ==
                 Append(SSIncs(suitesparse, ss_libs), <<suitesparse, "/", "SuiteSparse_config">>)
         IN  JoinWith(<<" ">>,
                 << withdep \o <<"=1">>,
                    withdep \o <<"-include=[">> \o JoinWith(<<",">>, suitesparse_inc) \o <<"]">>,
                    withdep \o <<"-lib=[">> \o JoinWith(<<",">>, suitesparse_libs) \o <<"]">> >>)
    ELSE LET withdep == <<"--with-umfpack">>
             umfpack_libs == SSLibs(suitesparse, umfpack_names)
         IN  JoinWith(<<" ">>,
                 << withdep \o <<"=1">>,
                    withdep \o <<"-include=">> \o SSInc(suitesparse, "UMFPACK"),
                    withdep \o <<"-lib=[">> \o JoinWith(<<",">>, umfpack_libs) \o <<"]">> >>)

\* lines 194-227: SuiteSparse
PetscSuiteSparse(m) ==
    LET suitesparse == get_software_root("SuiteSparse")
    IN  IF Truthy(suitesparse) THEN UpdOpts(m, SuiteSparseFlags(version, suitesparse)) ELSE m

\* lines 229-231: env.setvar('PETSC_DIR', start_dir) and the buildopts update
PetscSetDir(m) ==
    IF Raised(m) THEN m
    ELSE UpdBuild([m EXCEPT !.environ = [@ EXCEPT !["PETSC_DIR"] = cfg.start_dir]],
                  <<"PETSC_DIR=", cfg.start_dir>>)

\* ConfigureMake.configure_step: ./configure --prefix=<installdir> <configopts>;
\* returns the command's output
ConfigureMake_configure_step(m, o, code) ==
    IF Raised(m) THEN m
    ELSE run_cmd(m, cfg.preconfigopts \o <<" ", "./configure", " ", "--prefix=", cfg.installdir,
                                           " ">> \o m.configopts, o, code)

\* lines 233-238: the external configure invocation
PetscRunConfigure(m, o, code) ==
    IF Raised(m) THEN m
    ELSE IF cfg.sourceinstall
         THEN run_cmd(m, cfg.preconfigopts \o <<" ", "./configure", " ">> \o m.configopts,
                      o, code)
         ELSE ConfigureMake_configure_step(m, o, code)

\* error_regexp.search(out): some line of the output holds the marker
HasErrorMarker(o) == \E i \in DOMAIN o : Contains(o[i], <<"ERROR">>)

\* variant: the output is not scanned
PetscCheckOutput_trusting(m) == m
\* lines 240-243: check for errors in configure
PetscCheckOutput(m) ==
    IF Raised(m) THEN m
    ELSE IF HasErrorMarker(m.out)
         THEN Raise(m, Error("Error(s) detected in configure output!"))
         ELSE m

RECURSIVE LStrip(_)
\* \s* at the start of what is left of a line
LStrip(line) ==
    IF line # <<>> /\ line[1] = " " THEN LStrip(Tail(line)) ELSE line

\* ^\s*PETSC_ARCH:\s*(\S+)$ on one line
ArchLine(line) ==
    LET l == LStrip(line)
    IN  /\ l # <<>>
        /\ l[1] = "PETSC_ARCH:"
        /\ LET r == LStrip(Tail(l)) IN Len(r) = 1 /\ r[1] # " "

\* res.group(1)
ArchOf(line) == LStrip(Tail(LStrip(line)))

\* lines 245-253: figure out the PETSC_ARCH setting
PetscArch(m) ==
    IF Raised(m) \/ ~cfg.sourceinstall THEN m
    ELSE LET hits == {i \in DOMAIN m.out : ArchLine(m.out[i])}
         IN  IF hits # {}
             THEN LET first == CHOOSE i \in hits : \A j \in hits : i <= j
                      arch == ArchOf(m.out[first])
                  IN  UpdBuild([m EXCEPT !.petsc_arch = arch], <<"PETSC_ARCH=">> \o arch)
             ELSE Raise(m, Error("Failed to determine PETSC_ARCH setting."))

\* '%s-%s' % (self.name.lower(), self.version)
PetscSubdirName == <<Lower("PETSc"), "-", version>>

\* line 255
PetscSubdir(m) == IF Raised(m) THEN m ELSE [m EXCEPT !.petsc_subdir = PetscSubdirName]

\* variant: --with-shared=1 is left out
PetscLegacy_unshared(m, o, code) ==
    LET m1 == UpdOpts(m, <<"--prefix=", cfg.installdir>>)
        deproot == get_software_root("SCOTCH")
        m3 == IF Truthy(deproot)
              THEN UpdOpts(m1, DirFlags(<<"--with-", Lower("SCOTCH")>>, deproot))
              ELSE m1
    IN  run_cmd(m3, <<"./config/configure.py", " ">> \o m3.configopts, o, code)
\* lines 257-270: old versions (< 3.x)
PetscLegacy(m, o, code) ==
    LET m1 == UpdOpts(m, <<"--prefix=", cfg.installdir>>)
        m2 == UpdOpts(m1, <<"--with-shared=1">>)
        deproot == get_software_root("SCOTCH")
        m3 == IF Truthy(deproot)
              THEN UpdOpts(m2, DirFlags(<<"--with-", Lower("SCOTCH")>>, deproot))
              ELSE m2
    IN  run_cmd(m3, <<"./config/configure.py", " ">> \o m3.configopts, o, code)

\* lines 271-273: make does not accept -j from 3.5 on
PetscParallel(m) ==
    IF Raised(m) \/ ~AtLeast35(version) THEN m ELSE [m EXCEPT !.parallel = None]

\* variant: PETSC_DIR is set only once configure's output has been checked
PetscModern_setdir_late(m, o, code) ==
    LET assembled ==
            PetscSuiteSparse(PetscAdditionalDeps(PetscBlasLapack(PetscMathDeps(
                PetscPython(PetscPapi(PetscBuildOptions(PetscCompilers(m))))))))
    IN  PetscSubdir(PetscArch(PetscSetDir(PetscCheckOutput(
            PetscRunConfigure(assembled, o, code)))))

\* lines 81-255: the configure procedure of versions >= 3
PetscModern(m, o, code) ==
    LET assembled ==
            PetscSuiteSparse(PetscAdditionalDeps(PetscBlasLapack(PetscMathDeps(
                PetscPython(PetscPapi(PetscBuildOptions(PetscCompilers(m))))))))
    IN  PetscSubdir(PetscArch(PetscCheckOutput(
            PetscRunConfigure(PetscSetDir(assembled), o, code))))

\* EB_PETSc.configure_step, as a function of the machine
PETSc_configure(m, o, code) ==
    PetscParallel(IF AtLeast3(version) THEN PetscModern(m, o, code)
                  ELSE PetscLegacy(m, o, code))

\* EB_PETSc.make_builddir
PETScMakeBuilddir ==
    /\ pkg = "PETSc"
    /\ phase = "start"
    /\ self' = [self EXCEPT !.build_in_installdir = IF cfg.sourceinstall THEN TRUE ELSE @]
    /\ phase' = "ready"
    /\ UNCHANGED <<pkg, version, cfg, environ, site, calls, cmds, out, ec, err,
                   installed, custom_paths, guesses, module_txt>>

\* what the external configure script may print
ConfigureOutputs ==
    { << <<"Configure", " ", "stage", " ", "complete">>,
         <<" ", "PETSC_ARCH:", " ", "arch-linux2-c-opt">>,
         <<"PETSC_ARCH:", "arch-other">> >>,
      << <<"Configure", " ", "stage", " ", "complete">>,
         <<"PETSC_ARCH:", " ", "arch-linux2-c-opt", " ">> >>,
      << <<"***", "ERROR", ":", " ", "unable", " ", "to", " ", "configure">>,
         <<"PETSC_ARCH:", " ", "arch-linux2-c-opt">> >> }

\* EB_PETSc.configure_step
PETScConfigureStep ==
    /\ pkg = "PETSc"
    /\ CanConfigure
    /\ \E o \in ConfigureOutputs, code \in ExitCodes :
          Commit(PETSc_configure(Machine, o, code), cfg)
    /\ UNCHANGED <<pkg, version, site, installed, custom_paths, guesses, module_txt>>

bmake_headers == <<"petscconf.h", "petscconfiginfo.h", "petscfix.h", "petscmachineinfo.h">>

\* os.symlink(os.path.join(bmakedir, f), os.path.join(includedir, f))
HeaderLink(f) ==
    [src |-> <<cfg.installdir, "/", "bmake", "/", "linux-gnu-c-opt", "/", f>>,
     dst |-> <<cfg.installdir, "/", "include", "/", f>>]

\* variant: the branch is taken on 3.5 instead of 3
InstallKind_late(v, sourceinstall) ==
    IF AtLeast35(v)
    THEN (IF ~sourceinstall THEN "make install" ELSE "nothing")
    ELSE "symlinks"
\* the branch install_step takes (lines 282-286)
InstallKind(v, sourceinstall) ==
    IF AtLeast3(v)
    THEN (IF ~sourceinstall THEN "make install" ELSE "nothing")
    ELSE "symlinks"

\* EB_PETSc.install_step; failAt is the header whose symlink fails (0: none),
\* code the exit code of the generic make install
PETScInstallStep ==
    /\ pkg = "PETSc"
    /\ phase = "configured"
    /\ LET kind == InstallKind(version, cfg.sourceinstall)
       IN  \E failAt \in 0..Len(bmake_headers), code \in ExitCodes :
              /\ kind # "symlinks" => failAt = 0
              /\ kind # "make install" => code = 0
              /\ installed' =
                    [kind |-> kind,
                     links |-> IF kind = "symlinks"
                               THEN {HeaderLink(bmake_headers[i]) :
                                        i \in {j \in DOMAIN bmake_headers :
                                                  failAt = 0 \/ j < failAt}}
                               ELSE {}]
              /\ cmds' = IF kind = "make install"
                         THEN Append(cmds, <<"make", " ", "install">>) ELSE cmds
              /\ err' = IF failAt # 0
                        THEN Error("Something went wrong during symlink creation")
                        ELSE IF code # 0 THEN Error("cmd failed") ELSE NoErr
              /\ phase' = IF failAt # 0 \/ code # 0 THEN "failed" ELSE "installed"
    /\ UNCHANGED <<pkg, version, cfg, environ, site, self, calls, out, ec,
                   custom_paths, guesses, module_txt>>

\* prefix1 of sanity_check_step and make_module_req_guess
Prefix1 == IF cfg.sourceinstall THEN self.petsc_subdir ELSE <<>>

\* prefix2 = os.path.join(self.petsc_subdir, self.petsc_arch)
Prefix2 ==
    IF cfg.sourceinstall THEN PathJoin(self.petsc_subdir, self.petsc_arch) ELSE <<>>

\* lines 338-341
LibExt == IF cfg.shared_libs THEN get_shared_lib_ext ELSE "a"

\* lines 343-347
PetscCustomPaths ==
    [files |-> << PathJoin(Prefix2, <<"lib", "/", "libpetsc.", LibExt>>) >>,
     dirs |-> << PathJoin(Prefix1, <<"bin">>), PathJoin(Prefix2, <<"conf">>),
                 PathJoin(Prefix1, <<"include">>), PathJoin(Prefix2, <<"include">>) >>]

\* EB_PETSc.sanity_check_step
PETScSanityCheckStep ==
    /\ pkg = "PETSc"
    /\ phase = "installed"
    /\ custom_paths' = PetscCustomPaths
    /\ phase' = "checked"
    /\ UNCHANGED <<pkg, version, cfg, environ, site, self, calls, cmds, out, ec, err,
                   installed, guesses, module_txt>>

\* EB_PETSc.make_module_req_guess
PETScMakeModuleReqGuess ==
    /\ pkg = "PETSc"
    /\ phase = "checked"
    /\ guesses' = [PATH |-> << PathJoin(Prefix1, <<"bin">>) >>,
                   CPATH |-> << PathJoin(Prefix2, <<"include">>),
                                PathJoin(Prefix1, <<"include">>) >>,
                   LD_LIBRARY_PATH |-> << PathJoin(Prefix2, <<"lib">>) >>]
    /\ phase' = "guessed"
    /\ UNCHANGED <<pkg, version, cfg, environ, site, self, calls, cmds, out, ec, err,
                   installed, custom_paths, module_txt>>

\* moduleGenerator.set_environment(name, value)
set_environment(name, value) == [name |-> name, value |-> value]

\* variant: PETSC_ARCH is assigned whatever the install mode
PetscModuleExtra_arch_always(txt) ==
    IF cfg.sourceinstall
    THEN txt \o << set_environment("PETSC_DIR", <<"$root", "/">> \o self.petsc_subdir),
                   set_environment("PETSC_ARCH", self.petsc_arch) >>
    ELSE txt \o << set_environment("PETSC_DIR", <<"$root">>),
                   set_environment("PETSC_ARCH", self.petsc_arch) >>

\* lines 320-327: txt with the assignments of the install mode added
PetscModuleExtra(txt) ==
    IF cfg.sourceinstall
    THEN txt \o << set_environment("PETSC_DIR", <<"$root", "/">> \o self.petsc_subdir),
                   set_environment("PETSC_ARCH", self.petsc_arch) >>
    ELSE Append(txt, set_environment("PETSC_DIR", <<"$root">>))

\* EB_PETSc.make_module_extra
PETScMakeModuleExtra ==
    /\ pkg = "PETSc"
    /\ phase = "guessed"
    /\ module_txt' = PetscModuleExtra(module_txt)
    /\ phase' = "done"
    /\ UNCHANGED <<pkg, version, cfg, environ, site, self, calls, cmds, out, ec, err,
                   installed, custom_paths, guesses>>

(***************************************************************************)
(* Initial states: a fresh easyblock object on a build host                *)
(***************************************************************************)
Software == {"Python", "OpenEXR", "OpenColorIO", "CUDA", "SCOTCH", "SuiteSparse"}

\* $EBROOT<NAME> of an installed package
RootPath ==
    [n \in Software |->
        CASE n = "Python" -> "/sw/Python"
          [] n = "OpenEXR" -> "/sw/OpenEXR"
          [] n = "OpenColorIO" -> "/sw/OpenColorIO"
          [] n = "CUDA" -> "/sw/CUDA"
          [] n = "SCOTCH" -> "/sw/SCOTCH"
          [] n = "SuiteSparse" -> "/sw/SuiteSparse"]

\* the lookup table of a host where exactly the packages of `present` are loaded
RootsOf(present) == [n \in Software |-> IF n \in present THEN RootPath[n] ELSE None]

\* sequences over S of length at most n
SeqsUpTo(S, n) == UNION {[1..k -> S] : k \in 0..n}

Injective(f) == \A i, j \in DOMAIN f : f[i] = f[j] => i = j

\* the environment of a fresh build: nothing of the toolchain is set
EnvVars ==
    {"CC", "CXX", "F90", "CFLAGS", "CXXFLAGS", "F90FLAGS", "PETSC_DIR",
     "BLACS_INC_DIR", "BLACS_LIB_DIR", "BLACS_STATIC_LIBS",
     "FFTW_INC_DIR", "FFTW_LIB_DIR", "FFTW_STATIC_LIBS",
     "SCALAPACK_INC_DIR", "SCALAPACK_LIB_DIR", "SCALAPACK_STATIC_LIBS",
     "BLAS_LAPACK_LIB_DIR", "BLAS_LAPACK_STATIC_LIBS"}

EmptyEnv == [v \in EnvVars |-> None]

NewSelf == [petsc_arch |-> <<>>, petsc_subdir |-> <<>>, build_in_installdir |-> FALSE]

NotInstalled == [kind |-> "not run", links |-> {}]

NoPaths == [files |-> <<>>, dirs |-> <<>>]

\* the variables every fresh build starts with
InitCommon ==
    /\ environ \in {EmptyEnv}
    /\ self = NewSelf
    /\ calls = 0
    /\ cmds = <<>>
    /\ out = <<>>
    /\ ec = -1
    /\ err = NoErr
    /\ installed = NotInstalled
    /\ custom_paths = NoPaths
    /\ guesses = <<>>
    /\ module_txt = <<>>

\* flags an easyconfig may already hold in configopts
BlenderUserFlags ==
    { <<"-D", "WITH_BUILDINFO", "=", "ON">>,
      <<"-D", "WITH_GAMEENGINE", "=", "ON">>,
      <<"-D", "WITH_CPU_SSE", "2", "=", "ON">>,
      <<"-D", "CMAKE_C_FLAGS", "=", "-D", "WITH_SYSTEM_GLEW", "=", "1">> }

\* the paths a pattern of each kind may match on the host
Candidates(kind) ==
    CASE kind = "numpy" -> <<"numpy-a.egg", "numpy-b.egg", "numpy-c.egg", "numpy-d.egg">>
      [] kind = "requests" -> <<"requests-a.egg", "requests-b.egg", "requests-c.egg",
                                "requests-d.egg">>
      [] kind = "lib" -> <<"libpython-a.so", "libpython-b.so", "libpython-c.so",
                           "libpython-d.so">>
      [] kind = "include" -> <<"python-a", "python-b", "python-c", "python-d">>

\* glob results: up to MaxMatches distinct paths, in any order
MatchLists(kind) ==
    { [i \in DOMAIN f |-> Candidates(kind)[f[i]]] :
        f \in {g \in SeqsUpTo(1..MaxMatches, MaxMatches) : Injective(g)} }

\* the four patterns configure_step looks up, by kind
BlenderPatterns(root, short, ext) ==
    [kind \in {"numpy", "requests", "lib", "include"} |->
        CASE kind = "numpy" -> NumpyPattern(root, short)
          [] kind = "requests" -> RequestsPattern(root, short)
          [] kind = "lib" -> PythonLibPattern(root, short, ext)
          [] kind = "include" -> PythonIncludePattern(root, short)]

\* filesystems in which at most one of the four patterns has no unique match
BlenderFilesystems(root, short, ext) ==
    LET pats == BlenderPatterns(root, short, ext)
        kinds == DOMAIN pats
        KindOf(p) == CHOOSE k \in kinds : pats[k] = p
    IN  UNION { { [p \in {pats[k] : k \in kinds} |->
                     IF KindOf(p) = bad THEN l ELSE <<Candidates(KindOf(p))[1]>>] :
                  l \in MatchLists(bad) } : bad \in kinds }

InitBlender ==
    /\ pkg = "Blender"
    /\ version = "2.79"
    /\ \E flags \in SeqsUpTo(BlenderUserFlags, MaxUserFlags) :
          cfg = [configopts |-> JoinWith(<<" ">>, flags), buildopts |-> <<>>,
                 preconfigopts |-> <<>>, parallel |-> "4", installdir |-> "/install",
                 separate_build_dir |-> FALSE]
    /\ \E present \in SUBSET {"Python", "OpenEXR", "OpenColorIO", "CUDA"} :
       \E pv \in {"2.7.11", "3.6.3"} :
          /\ "Python" \notin present => pv = "2.7.11"
          /\ \E files \in (IF "Python" \in present
                           THEN BlenderFilesystems(RootPath["Python"], PyShortVerTable[pv], "so")
                           ELSE {<<>>}) :
                site = [roots |-> RootsOf(present), pyver |-> pv, shlib_ext |-> "so",
                        fs |-> files]
    /\ phase = "ready"
    /\ InitCommon

InitMVAPICH2 ==
    /\ pkg = "MVAPICH2"
    /\ version = "2.1"
    /\ \E rdma \in {"gen2", "udapl"} :
       \E flags \in [{"debug", "withmpe", "withlimic2", "withchkpt", "withhwloc"} -> BOOLEAN] :
       \E blcr \in [{"path", "inc", "lib"} -> BOOLEAN] :
          cfg = [configopts |-> <<>>, buildopts |-> <<>>, preconfigopts |-> <<>>,
                 parallel |-> "4", installdir |-> "/install",
                 rdma_type |-> rdma, debug |-> flags["debug"], withmpe |-> flags["withmpe"],
                 withlimic2 |-> flags["withlimic2"], withchkpt |-> flags["withchkpt"],
                 withhwloc |-> flags["withhwloc"],
                 blcr_path |-> IF blcr["path"] THEN "/blcr" ELSE None,
                 blcr_inc_path |-> IF blcr["inc"] THEN "/blcr/include" ELSE None,
                 blcr_lib_path |-> IF blcr["lib"] THEN "/blcr/lib" ELSE None]
    /\ site = [roots |-> RootsOf({}), pyver |-> "2.7.11", shlib_ext |-> "so", fs |-> <<>>]
    /\ phase = "ready"
    /\ InitCommon

\* the variables the toolchain and the dependency modules define
EnvValue(v) ==
    CASE v = "CC" -> "gcc"
      [] v = "CXX" -> "g++"
      [] v = "F90" -> "gfortran"
      [] v = "CFLAGS" -> "-O2"
      [] v = "CXXFLAGS" -> "-O2"
      [] v = "F90FLAGS" -> "-O2"
      [] v = "PETSC_DIR" -> None
      [] v = "BLACS_INC_DIR" -> "/sw/BLACS/include"
      [] v = "BLACS_LIB_DIR" -> "/sw/BLACS/lib"
      [] v = "BLACS_STATIC_LIBS" -> "libblacs.a"
      [] v = "FFTW_INC_DIR" -> "/sw/FFTW/include"
      [] v = "FFTW_LIB_DIR" -> "/sw/FFTW/lib"
      [] v = "FFTW_STATIC_LIBS" -> "libfftw3.a"
      [] v = "SCALAPACK_INC_DIR" -> "/sw/ScaLAPACK/include"
      [] v = "SCALAPACK_LIB_DIR" -> "/sw/ScaLAPACK/lib"
      [] v = "SCALAPACK_STATIC_LIBS" -> "libscalapack.a"
      [] v = "BLAS_LAPACK_LIB_DIR" -> "/sw/OpenBLAS/lib"
      [] v = "BLAS_LAPACK_STATIC_LIBS" -> "libopenblas.a"

\* the environment with every dependency module loaded
BaseEnv == [v \in EnvVars |-> EnvValue(v)]

DepGroups ==
    { {"BLACS_INC_DIR", "BLACS_LIB_DIR", "BLACS_STATIC_LIBS"},
      {"FFTW_INC_DIR", "FFTW_LIB_DIR", "FFTW_STATIC_LIBS"},
      {"SCALAPACK_INC_DIR", "SCALAPACK_LIB_DIR", "SCALAPACK_STATIC_LIBS"} }

BlasVars == {"BLAS_LAPACK_LIB_DIR", "BLAS_LAPACK_STATIC_LIBS"}

DepVars == UNION DepGroups \cup BlasVars

Without(env, vs) == [v \in EnvVars |-> IF v \in vs THEN None ELSE env[v]]

\* environments: all set; one variable unset or empty; one dependency, all
\* optional dependencies, or everything unloaded
PetscEnvs ==
    {BaseEnv}
    \cup {[BaseEnv EXCEPT ![v] = x] : v \in DepVars, x \in {None, ""}}
    \cup {Without(BaseEnv, g) : g \in DepGroups}
    \cup {Without(BaseEnv, UNION DepGroups), Without(BaseEnv, DepVars)}

GCCToolchain == [comp_family |-> "GCC", usempi |-> TRUE, debug |-> FALSE, pic |-> TRUE]

IntelToolchain == [comp_family |-> "Intel", usempi |-> FALSE, debug |-> TRUE, pic |-> FALSE]

papi_inc_default == <<"/usr/include">>

papi_lib_default == <<"/usr/lib64/libpapi.so">>

\* which of the PAPI files exist on the host
PapiFiles ==
    { {}, {PathJoin(papi_inc_default, <<"papi.h">>)},
      {PathJoin(papi_inc_default, <<"papi.h">>), papi_lib_default} }

PlainScenario ==
    [env |-> BaseEnv, present |-> {}, declared |-> FALSE, with_papi |-> FALSE,
     files |-> {}, tc |-> GCCToolchain, shared_libs |-> FALSE, user |-> <<>>]

\* build hosts and easyconfigs: the environment, the installed software, or the
\* PAPI and toolchain settings vary around a plain build
PetscScenarios ==
    {[PlainScenario EXCEPT !.env = e] : e \in PetscEnvs}
    \cup {[PlainScenario EXCEPT !.present = p, !.declared = d, !.shared_libs = s] :
            p \in SUBSET {"Python", "SCOTCH", "SuiteSparse"}, d \in BOOLEAN, s \in BOOLEAN}
    \cup {[PlainScenario EXCEPT !.with_papi = w, !.files = f, !.tc = t, !.shared_libs = s] :
            w \in BOOLEAN, f \in PapiFiles, t \in {GCCToolchain, IntelToolchain},
            s \in BOOLEAN}
    \cup {[PlainScenario EXCEPT !.user = <<"--with-hypre=1">>, !.present = p] :
            p \in {{}, {"SCOTCH"}}}

InitPETSc ==
    /\ pkg = "PETSc"
    /\ version \in Versions
    /\ \E sc \in PetscScenarios, si \in BOOLEAN :
          /\ cfg = [configopts |-> sc.user, buildopts |-> <<>>, preconfigopts |-> <<>>,
                    parallel |-> "4", installdir |-> "/install", start_dir |-> "/build/petsc",
                    sourceinstall |-> si, shared_libs |-> sc.shared_libs,
                    with_papi |-> sc.with_papi, papi_inc |-> papi_inc_default,
                    papi_lib |-> papi_lib_default,
                    dependencies |-> IF sc.declared THEN <<"FFTW", "SCOTCH">> ELSE <<>>]
          /\ site = [roots |-> RootsOf(sc.present), pyver |-> "2.7.11", shlib_ext |-> "so",
                     fs |-> <<>>, files |-> sc.files, toolchain |-> sc.tc]
          /\ environ = sc.env
    /\ self = NewSelf
    /\ phase = "start"
    /\ calls = 0
    /\ cmds = <<>>
    /\ out = <<>>
    /\ ec = -1
    /\ err = NoErr
    /\ installed = NotInstalled
    /\ custom_paths = NoPaths
    /\ guesses = <<>>
    /\ module_txt = <<>>

Init == InitBlender \/ InitMVAPICH2 \/ InitPETSc

Next ==
    \/ BlenderConfigureStep
    \/ BlenderSanityCheckStep
    \/ MVAPICH2ConfigureStep
    \/ MVAPICH2SanityCheckStep
    \/ PETScMakeBuilddir
    \/ PETScConfigureStep
    \/ PETScInstallStep
    \/ PETScSanityCheckStep
    \/ PETScMakeModuleReqGuess
    \/ PETScMakeModuleExtra

Spec == Init /\ [][Next]_vars

(***************************************************************************)
(* Properties                                                              *)
(***************************************************************************)
\* the number of occurrences of sub in s (the flag keys counted cannot overlap)
Count(s, sub) ==
    Cardinality({i \in 1..(Len(s) - Len(sub) + 1) : SubSeq(s, i, i + Len(sub) - 1) = sub})

\* a step of the named package's configure_step
ConfigureStepOf(p) == pkg = p /\ calls' = calls + 1

\* the whitespace-separated words of a command line or option string
Words(str) == SelectSeq(str, LAMBDA a : a # " ")

DefaultKeys ==
    {"WITH_INSTALL_PORTABLE", "WITH_BUILDINFO", "WITH_CPU_SSE", "CMAKE_C_FLAGS_RELEASE",
     "CMAKE_CXX_FLAGS_RELEASE", "WITH_GAMEENGINE", "WITH_SYSTEM_GLEW"}

\* "-DK=" as it stands in an option string
KeyFlag(k) == <<"-D", k, "=">>

\* the flag keys the three adapters append
AdapterKeys ==
    {KeyFlag(k) : k \in DefaultKeys \cup
        {"PYTHON_VERSION", "PYTHON_LIBRARY", "PYTHON_INCLUDE_DIR", "PYTHON_NUMPY_PATH",
         "PYTHON_REQUESTS_PATH", "OPENEXR_INCLUDE_DIR", "WITH_OPENCOLORIO",
         "WITH_CYCLES_CUDA_BINARIES"}}
    \cup { <<"--with-rdma=">>, <<"--with-thread-package=pthreads">>, <<"--enable-shared">>,
           <<"--enable-sharedlibs=gcc">>, <<"--enable-f77">>, <<"--enable-fc">>,
           <<"--enable-cxx">>, <<"--enable-mpe">>, <<"--enable-limic2">>,
           <<"--enable-checkpointing">>, <<"--with-hwloc">>, <<"--with-blcr=">> }
    \cup { <<"--with-cc=">>, <<"--with-cxx=">>, <<"--with-fc=">>, <<"--with-build-step-np=">>,
           <<"--with-shared-libraries=">>, <<"--with-blas-lapack-lib=[">>, <<"--prefix=">>,
           <<"--with-shared=1">>, <<"--with-numpy=1">>, <<"PETSC_DIR=">>, <<"PETSC_ARCH=">> }

\* C1 (as stated): flag assembly is idempotent per option key for every adapter:
\* after any number of configure_step invocations each flag key occurs at most
\* once in configopts and buildopts.
C1_EveryKeyAtMostOnce ==
    calls >= 1 =>
        \A k \in AdapterKeys : Count(cfg.configopts, k) <= 1 /\ Count(cfg.buildopts, k) <= 1

\* C1 (amended): only Blender's default -D options are guarded by a presence
\* check: a configure_step invocation never appends a default -DK= whose key is
\* already present; an unguarded flag, such as MVAPICH2's --with-rdma=, is
\* appended once more by every invocation.
C1_OnlyDefaultsIdempotent ==
    [][ /\ ConfigureStepOf("Blender") =>
            \A k \in DefaultKeys :
                Contains(cfg.configopts, KeyFlag(k)) =>
                    Count(cfg'.configopts, KeyFlag(k)) = Count(cfg.configopts, KeyFlag(k))
        /\ ConfigureStepOf("MVAPICH2") =>
            Count(cfg'.configopts, <<"--with-rdma=">>)
                = Count(cfg.configopts, <<"--with-rdma=">>) + 1 ]_vars

\* a second Blender configure_step has run: a default key still stands once, the
\* unguarded OpenColorIO flag stands twice
C1_Witness ==
    /\ pkg = "Blender"
    /\ calls = 2
    /\ Count(cfg.configopts, KeyFlag("WITH_CPU_SSE")) = 1
    /\ Count(cfg.configopts, KeyFlag("WITH_OPENCOLORIO")) = 2

\* the patterns of Blender's four lookups, in the order configure_step makes them
LookupOrder ==
    LET root == site.roots["Python"]
        short == IF site.pyver = "2.7.11" THEN "2.7" ELSE "3.6"
    IN  << NumpyPattern(root, short), RequestsPattern(root, short),
           PythonLibPattern(root, short, site.shlib_ext), PythonIncludePattern(root, short) >>

\* C2: find_glob_pattern returns the matched path when the pattern matches exactly
\* one path (the path reaches the flag built from it); on 0 or >= 2 matches it
\* raises, and the error carries the pattern, the actual number of matches and the
\* match list verbatim.
C2_UniqueMatchOrError ==
    (pkg = "Blender" /\ calls >= 1 /\ site.roots["Python"] # None) =>
        LET pats == LookupOrder
            bad == {i \in 1..4 : Len(site.fs[pats[i]]) # 1}
        IN  IF bad = {}
            THEN /\ err.pattern = <<>>
                 /\ Contains(cfg.configopts,
                             KeyFlag("PYTHON_NUMPY_PATH") \o site.fs[pats[1]] \o <<" ">>)
                 /\ Contains(cfg.configopts,
                             KeyFlag("PYTHON_REQUESTS_PATH") \o site.fs[pats[2]] \o <<" ">>)
                 /\ Contains(cfg.configopts,
                             KeyFlag("PYTHON_LIBRARY") \o site.fs[pats[3]] \o <<" ">>)
                 /\ Contains(cfg.configopts,
                             KeyFlag("PYTHON_INCLUDE_DIR") \o site.fs[pats[4]] \o <<" ">>)
            ELSE LET first == CHOOSE i \in bad : \A j \in bad : i <= j
                 IN  /\ phase = "failed"
                     /\ err.pattern = pats[first]
                     /\ err.count = Len(site.fs[pats[first]])
                     /\ err.matches = site.fs[pats[first]]

\* a lookup failed on two matches, reported with both
C2_Witness ==
    /\ pkg = "Blender"
    /\ phase = "failed"
    /\ err.count = 2
    /\ Len(err.matches) = 2
    /\ err.matches[1] # err.matches[2]

\* C3: for versions >= 3, whenever the output of the external configure command
\* holds the marker ERROR the step fails, whatever the exit code and on both the
\* source-install and the prefix-install path, and nothing of what follows the
\* scan happens: petsc_arch and petsc_subdir keep their values, no PETSC_ARCH is
\* added to buildopts, parallel is not reset.
C3_ErrorMarkerIsFatal ==
    [][ ( /\ ConfigureStepOf("PETSc")
          /\ version \in {"3", "3.4", "3.5", "3.5.1", "3.10"}
          /\ Len(cmds') = Len(cmds) + 1
          /\ \E i \in DOMAIN out' : Contains(out'[i], <<"ERROR">>) )
        => ( /\ phase' = "failed"
             /\ err' # NoErr
             /\ ec' = 0 => err'.msg = "Error(s) detected in configure output!"
             /\ self' = self
             /\ Count(cfg'.buildopts, <<"PETSC_ARCH=">>) = Count(cfg.buildopts, <<"PETSC_ARCH=">>)
             /\ cfg'.parallel = cfg.parallel ) ]_vars

\* the command exited with 0, printed the marker, and the step failed on it
C3_Witness ==
    /\ pkg = "PETSc"
    /\ calls >= 1
    /\ ec = 0
    /\ \E i \in DOMAIN out : Contains(out[i], <<"ERROR">>)
    /\ phase = "failed"
    /\ err.msg = "Error(s) detected in configure output!"
    /\ ~cfg.sourceinstall

\* the PAPI check of this configuration raises before any dependency is looked up
PapiAborts ==
    cfg.with_papi /\ ~( <<"/usr/include", "/", "papi.h">> \in site.files
                        /\ <<"/usr/lib64/libpapi.so">> \in site.files )

Set(v) == v # None /\ v # ""

BlasSet == Set(environ["BLAS_LAPACK_LIB_DIR"]) /\ Set(environ["BLAS_LAPACK_STATIC_LIBS"])

ModernVersions == {"3", "3.4", "3.5", "3.5.1", "3.10"}

DepEnv(dep) ==
    CASE dep = "blacs" -> <<"BLACS_INC_DIR", "BLACS_LIB_DIR", "BLACS_STATIC_LIBS">>
      [] dep = "fftw" -> <<"FFTW_INC_DIR", "FFTW_LIB_DIR", "FFTW_STATIC_LIBS">>
      [] dep = "scalapack" ->
            <<"SCALAPACK_INC_DIR", "SCALAPACK_LIB_DIR", "SCALAPACK_STATIC_LIBS">>

\* the dependencies each release resolves from the environment
ResolvedDeps ==
    IF version \in {"3", "3.4"} THEN {"blacs", "fftw", "scalapack"} ELSE {"fftw", "scalapack"}

ScotchPresent ==
    /\ \E i \in DOMAIN cfg.dependencies : cfg.dependencies[i] = "SCOTCH"
    /\ site.roots["SCOTCH"] # None

\* the step assembled every flag (it got as far as the external command)
AssembledAll == ~PapiAborts /\ BlasSet

OldNames ==
    { <<"--with-", "scotch">>, <<"--with-cflags=">>, <<"--with-cxxflags=">>,
      <<"--with-fcflags=">>, <<"--with-umfpack">> }

NewNames ==
    { <<"--with-pt", "scotch">>, <<"--CFLAGS=">>, <<"--CXXFLAGS=">>, <<"--FFLAGS=">>,
      <<"--with-suitesparse">> }

\* C6: flag names switch at 3.5, boundary included: below 3.5 ("3", "3.4") a
\* configured PETSc >= 3 carries --with-cflags/--with-cxxflags/--with-fcflags, and
\* where flag assembly got that far --with-scotch=1 --with-scotch-dir=<root> for a
\* present SCOTCH and --with-umfpack for SuiteSparse; at "3.5" and above
\* ("3.5.1", "3.10") it carries --CFLAGS/--CXXFLAGS/--FFLAGS, --with-ptscotch=1
\* --with-ptscotch-dir=<root> and --with-suitesparse; never a name of the other era.
C6_ThresholdAt35 ==
    (pkg = "PETSc" /\ calls >= 1 /\ version \in ModernVersions) =>
        LET old == version \in {"3", "3.4"}
            mine == IF old THEN OldNames ELSE NewNames
            other == IF old THEN NewNames ELSE OldNames
            sc == IF old THEN <<"--with-", "scotch">> ELSE <<"--with-pt", "scotch">>
            ss == IF old THEN <<"--with-umfpack", "=1">> ELSE <<"--with-suitesparse", "=1">>
            cf == IF old THEN <<"--with-cflags=", "--with-cxxflags=", "--with-fcflags=">>
                  ELSE <<"--CFLAGS=", "--CXXFLAGS=", "--FFLAGS=">>
        IN  /\ \A n \in other : ~Contains(cfg.configopts, n)
            /\ \A i \in 1..3 : Contains(cfg.configopts, <<cf[i]>>)
            /\ (AssembledAll /\ ScotchPresent) =>
                  Contains(cfg.configopts,
                           sc \o <<"=1", " ">> \o sc \o <<"-dir=", site.roots["SCOTCH"], " ">>)
            /\ (AssembledAll /\ site.roots["SuiteSparse"] # None) =>
                  Contains(cfg.configopts, ss)

\* exactly at the boundary the new names are in use
C6_Witness ==
    /\ pkg = "PETSc"
    /\ version = "3.5"
    /\ phase = "configured"
    /\ Contains(cfg.configopts, <<"--with-pt", "scotch", "=1">>)
    /\ Contains(cfg.configopts, <<"--with-suitesparse", "=1">>)
    /\ Contains(cfg.configopts, <<"--CFLAGS=">>)

\* the value each default key is given
DefaultValue(k) ==
    IF k \in {"CMAKE_C_FLAGS_RELEASE", "CMAKE_CXX_FLAGS_RELEASE"}
    THEN <<"-D", "NDEBUG">> ELSE <<"OFF">>

\* C7: applying Blender's defaults never duplicates a flag: -DK=<default> is
\* appended if and only if "-DK=" does not occur in configopts, so a key already
\* set keeps its value and its number of occurrences, and an absent key occurs
\* exactly once afterwards.
C7_DefaultsNeverDuplicate ==
    [][ ConfigureStepOf("Blender") =>
          \A k \in DefaultKeys :
            LET S == cfg.configopts
                flag == <<" ">> \o KeyFlag(k) \o DefaultValue(k) \o <<" ">>
            IN  IF Contains(S, KeyFlag(k))
                THEN /\ Count(cfg'.configopts, KeyFlag(k)) = Count(S, KeyFlag(k))
                     /\ Count(cfg'.configopts, flag) = Count(S, flag)
                     /\ SubSeq(cfg'.configopts, 1, Len(S)) = S
                ELSE /\ Count(cfg'.configopts, KeyFlag(k)) = 1
                     /\ Contains(cfg'.configopts, flag) ]_vars

\* the user's -DWITH_BUILDINFO=ON stands alone, next to an appended default
C7_Witness ==
    /\ pkg = "Blender"
    /\ calls = 1
    /\ Contains(cfg.configopts, <<"-D", "WITH_BUILDINFO", "=", "ON">>)
    /\ Count(cfg.configopts, KeyFlag("WITH_BUILDINFO")) = 1
    /\ Contains(cfg.configopts, <<"-D", "WITH_CPU_SSE", "=", "OFF">>)

MakeInstall == <<"make", " ", "install">>

\* the command of the latest configure_step that got as far as running one
LastConfigure ==
    LET cs == SelectSeq(cmds, LAMBDA c : c # MakeInstall) IN cs[Len(cs)]

\* the four header links of a legacy install
LegacyLinks ==
    { [src |-> <<cfg.installdir, "/", "bmake", "/", "linux-gnu-c-opt", "/", f>>,
       dst |-> <<cfg.installdir, "/", "include", "/", f>>] :
        f \in {"petscconf.h", "petscconfiginfo.h", "petscfix.h", "petscmachineinfo.h"} }

LegacyBaselineStep ==
    /\ ConfigureStepOf("PETSc")
    /\ version = "2.0"
    /\ calls = 0
    /\ cfg.configopts = <<>>
    /\ site.roots["SCOTCH"] = None

BaselineCommand == <<"./config/configure.py", "--prefix=", cfg.installdir, "--with-shared=1">>

\* C9 (as stated): for version "2.0" with no SCOTCH and empty configopts the flags
\* passed to the external configure script are exactly --prefix=<installdir>
\* --with-shared=1, and configure is successful when the command output holds no
\* error marker.
C9_LegacyBaseline ==
    [][ LegacyBaselineStep =>
          /\ Len(cmds') = 1
          /\ Words(cmds'[1]) = BaselineCommand
          /\ ~(\E i \in DOMAIN out' : Contains(out'[i], <<"ERROR">>)) => phase' = "configured"
      ]_vars

\* C9 (amended): for version "2.0" with no SCOTCH and empty configopts the flags
\* passed to the external configure script are exactly --prefix=<installdir>
\* --with-shared=1, and configure is successful when the command exits with
\* status 0 and its output holds no error marker.
C9_LegacyBaselineExitStatus ==
    [][ LegacyBaselineStep =>
          /\ Len(cmds') = 1
          /\ Words(cmds'[1]) = BaselineCommand
          /\ ( /\ ec' = 0
               /\ ~(\E i \in DOMAIN out' : Contains(out'[i], <<"ERROR">>)) )
             => phase' = "configured" /\ err' = NoErr
      ]_vars

\* a legacy baseline configure succeeded
C9_Witness ==
    /\ pkg = "PETSc"
    /\ version = "2.0"
    /\ calls = 1
    /\ phase = "configured"
    /\ ec = 0
    /\ ~(\E i \in DOMAIN out : Contains(out[i], <<"ERROR">>))
    /\ cmds = << <<"./config/configure.py", " ", " ", "--prefix=", cfg.installdir, " ",
                   " ", "--with-shared=1", " ">> >>

\* the paths of the layout rooted at the install prefix
FlatLayout(ext) ==
    [files |-> { <<"lib", "/", "libpetsc.", ext>> },
     dirs |-> { <<"bin">>, <<"conf">>, <<"include">> }]

\* the paths of the layout under <subdir> and <subdir>/<arch>
NestedLayout(subdir, arch, ext) ==
    [files |-> { subdir \o <<"/">> \o arch \o <<"/", "lib", "/", "libpetsc.", ext>> },
     dirs |-> { subdir \o <<"/", "bin">>, subdir \o <<"/">> \o arch \o <<"/", "conf">>,
                subdir \o <<"/", "include">>, subdir \o <<"/">> \o arch \o <<"/", "include">> }]

\* the paths sanity_check_step asked for, as sets
AskedPaths ==
    [files |-> {custom_paths.files[i] : i \in DOMAIN custom_paths.files},
     dirs |-> {custom_paths.dirs[i] : i \in DOMAIN custom_paths.dirs}]

\* the first line of the configure output that gives PETSC_ARCH
FirstArch ==
    LET hits == {i \in DOMAIN out : ArchLine(out[i])}
    IN  IF hits = {} THEN <<>>
        ELSE SubSeq(Words(out[CHOOSE i \in hits : \A j \in hits : i <= j]), 2, 2)

SanityDone == pkg = "PETSc" /\ phase \in {"checked", "guessed", "done"}

SanityExt == IF cfg.shared_libs THEN site.shlib_ext ELSE "a"

\* C10: without sourceinstall the sanity check asks for
\* lib/libpetsc.<ext> and bin, conf, include under the install prefix; with
\* sourceinstall for the same under petsc-<version> (bin, include) and
\* petsc-<version>/<PETSC_ARCH> (lib, conf, include), PETSC_ARCH being the value
\* taken from the configure output, neither part empty; <ext> is the shared
\* library extension iff shared_libs is set, "a" otherwise.
C10_SanityLayout ==
    SanityDone =>
        /\ AskedPaths =
              IF cfg.sourceinstall
              THEN NestedLayout(<<"petsc", "-", version>>, FirstArch, SanityExt)
              ELSE FlatLayout(SanityExt)
        /\ cfg.sourceinstall =>
              self.petsc_subdir # <<>> /\ self.petsc_arch # <<>> /\ FirstArch # <<>>

\* rest under prefix, as os.path.join puts it (an empty prefix adds nothing)
Under(prefix, rest) == IF prefix = <<>> THEN rest ELSE prefix \o <<"/">> \o rest

\* C11: the module environment of PETSc is exactly: with sourceinstall
\* PETSC_DIR=$root/<petsc_subdir> and PETSC_ARCH=<petsc_arch>, the subdir and arch
\* being the ones the paths of sanity_check_step and make_module_req_guess are
\* built from; without sourceinstall PETSC_DIR=$root and no PETSC_ARCH at all.
C11_ModuleEnvironment ==
    (pkg = "PETSc" /\ phase = "done") =>
        IF cfg.sourceinstall
        THEN /\ Len(module_txt) = 2
             /\ module_txt[1].name = "PETSC_DIR"
             /\ module_txt[2].name = "PETSC_ARCH"
             /\ module_txt[1].value = <<"$root", "/">> \o self.petsc_subdir
             /\ module_txt[2].value = self.petsc_arch
             /\ LET subdir == SubSeq(module_txt[1].value, 3, Len(module_txt[1].value))
                    both == Under(subdir, module_txt[2].value)
                IN  /\ custom_paths.dirs =
                          << Under(subdir, <<"bin">>), Under(both, <<"conf">>),
                             Under(subdir, <<"include">>), Under(both, <<"include">>) >>
                    /\ Len(custom_paths.files) = 1
                    /\ SubSeq(custom_paths.files[1], 1, Len(Under(both, <<"lib">>)))
                          = Under(both, <<"lib">>)
                    /\ guesses.PATH = << Under(subdir, <<"bin">>) >>
                    /\ guesses.CPATH = << Under(both, <<"include">>),
                                          Under(subdir, <<"include">>) >>
                    /\ guesses.LD_LIBRARY_PATH = << Under(both, <<"lib">>) >>
        ELSE /\ module_txt = << [name |-> "PETSC_DIR", value |-> <<"$root">>] >>
             /\ \A i \in DOMAIN module_txt : module_txt[i].name # "PETSC_ARCH"

\* a 3.4 source install exported its subdir and the arch configure printed
C11_Witness ==
    /\ pkg = "PETSc"
    /\ phase = "done"
    /\ cfg.sourceinstall
    /\ version = "3.4"
    /\ module_txt = << [name |-> "PETSC_DIR", value |-> <<"$root", "/", "petsc", "-", "3.4">>],
                       [name |-> "PETSC_ARCH", value |-> <<"arch-linux2-c-opt">>] >>

\* str ends with tail
EndsWith(str, tail) ==
    Len(tail) <= Len(str) /\ SubSeq(str, Len(str) - Len(tail) + 1, Len(str)) = tail

\* C12: nothing configure_step did is rolled back when it fails: in a version >= 3
\* step that invokes the external configure command, PETSC_DIR is start_dir in the
\* process environment and PETSC_DIR=<start_dir> is in buildopts whatever becomes
\* of the command; if the step fails (non-zero exit, error marker, PETSC_ARCH not
\* determinable) the variable stays set, buildopts stays extended by exactly that
\* flag, and configopts stays as extended for the command: the old value followed
\* by the flags of this step, the very string the command was given.
C12_NoRollbackOnFailure ==
    [][ ( /\ ConfigureStepOf("PETSc")
          /\ version \in ModernVersions
          /\ Len(cmds') = Len(cmds) + 1 )
        => LET flag == <<" ", "PETSC_DIR=", cfg.start_dir, " ">>
           IN  /\ environ'["PETSC_DIR"] = cfg.start_dir
               /\ SubSeq(cfg'.buildopts, 1, Len(cfg.buildopts) + 4) = cfg.buildopts \o flag
               /\ phase' = "failed" =>
                    /\ cfg'.buildopts = cfg.buildopts \o flag
                    /\ Len(cfg'.configopts) > Len(cfg.configopts)
                    /\ SubSeq(cfg'.configopts, 1, Len(cfg.configopts)) = cfg.configopts
                    /\ Contains(cfg'.configopts, <<"--with-blas-lapack-lib=[">>)
                    /\ EndsWith(cmds'[Len(cmds')], cfg'.configopts)
                    /\ \A v \in DOMAIN environ :
                          v # "PETSC_DIR" => environ'[v] = environ[v] ]_vars

\* a source install failed for want of a PETSC_ARCH line, PETSC_DIR left behind
C12_Witness ==
    /\ pkg = "PETSc"
    /\ phase = "failed"
    /\ err.msg = "Failed to determine PETSC_ARCH setting."
    /\ environ["PETSC_DIR"] = cfg.start_dir
    /\ Contains(cfg.buildopts, <<"PETSC_DIR=", cfg.start_dir>>)
    /\ ~Contains(cfg.buildopts, <<"PETSC_ARCH=">>)
    /\ Contains(cfg.configopts, <<"--with-cc=">>)

\* both files of the PAPI check exist
PapiFilesExist ==
    /\ cfg.papi_inc \o <<"/", "papi.h">> \in site.files
    /\ cfg.papi_lib \in site.files

\* the three PAPI flags, as one stretch of an option string
PapiFlags ==
    <<" ", "--with-papi=1", " ", " ", "--with-papi-include=">> \o cfg.papi_inc
        \o <<" ", " ", "--with-papi-lib=">> \o cfg.papi_lib \o <<" ">>

\* a version >= 3 configure_step with with_papi enabled
PapiStep == ConfigureStepOf("PETSc") /\ version \in ModernVersions /\ cfg.with_papi

\* the first atoms of the three PAPI flags
PapiKeys == { <<"--with-papi=1">>, <<"--with-papi-include=">>, <<"--with-papi-lib=">> }

\* the three PAPI flags are appended iff both files exist
PapiFlagsIffFiles ==
    IF PapiFilesExist
    THEN /\ \A k \in PapiKeys : Count(cfg'.configopts, k) = Count(cfg.configopts, k) + 1
         /\ Count(cfg'.configopts, PapiFlags) = Count(cfg.configopts, PapiFlags) + 1
    ELSE /\ \A k \in PapiKeys : Count(cfg'.configopts, k) = Count(cfg.configopts, k)
         /\ err' # NoErr

PythonKeys ==
    { KeyFlag(k) : k \in {"PYTHON_VERSION", "PYTHON_LIBRARY", "PYTHON_INCLUDE_DIR",
                          "PYTHON_NUMPY_PATH", "PYTHON_REQUESTS_PATH"} }

\* every pattern of Blender's four lookups matches exactly one path
LookupsUnique == \A i \in 1..4 : Len(site.fs[LookupOrder[i]]) = 1

\* C14: Blender's Python flags are all-or-nothing: without a Python root none of
\* the five -DPYTHON_* flags is appended and configuration proceeds to the parent
\* CMake configure; with a Python root the four lookups come before any of the
\* flags, so a failing lookup aborts configure_step with none of the five
\* appended and the parent configure not invoked, the default -D options
\* appended before staying in configopts; with four unique matches all five are
\* appended.
C14_PythonAllOrNothing ==
    [][ ConfigureStepOf("Blender") =>
          LET added(k) == Count(cfg'.configopts, k) - Count(cfg.configopts, k)
          IN  IF site.roots["Python"] = None
              THEN /\ \A k \in PythonKeys : added(k) = 0
                   /\ Len(cmds') = Len(cmds) + 1
              ELSE IF LookupsUnique
              THEN /\ \A k \in PythonKeys : added(k) = 1
                   /\ Len(cmds') = Len(cmds) + 1
              ELSE /\ \A k \in PythonKeys : added(k) = 0
                   /\ phase' = "failed"
                   /\ err'.pattern # <<>>
                   /\ cmds' = cmds
                   /\ \A k \in DefaultKeys : Contains(cfg'.configopts, KeyFlag(k)) ]_vars

\* the requests egg was not unique: configure_step failed with the defaults
\* appended, no Python flag and no cmake run
C14_Witness ==
    /\ pkg = "Blender"
    /\ phase = "failed"
    /\ site.roots["Python"] # None
    /\ Len(site.fs[LookupOrder[1]]) = 1
    /\ Len(site.fs[LookupOrder[2]]) # 1
    /\ err.pattern = LookupOrder[2]
    /\ \A k \in PythonKeys : ~Contains(cfg.configopts, k)
    /\ Contains(cfg.configopts, <<"-D", "WITH_CPU_SSE", "=", "OFF">>)
    /\ cmds = <<>>

\* what a step appended to configopts
Appended == SubSeq(cfg'.configopts, Len(cfg.configopts) + 1, Len(cfg'.configopts))

\* flag f stands in str as a word of its own
HasFlag(str, f) == Contains(str, <<" ">> \o f \o <<" ">>)

\* the number of MVAPICH2 options that add flags, counted by the flags they add
OptionalFlagCount ==
    (IF cfg.withmpe THEN 1 ELSE 0) + (IF cfg.withlimic2 THEN 1 ELSE 0)
    + (IF cfg.withchkpt THEN 2 ELSE 0) + (IF cfg.withhwloc THEN 1 ELSE 0)
    + (IF Set(cfg.blcr_path) THEN 1 ELSE 0) + (IF Set(cfg.blcr_inc_path) THEN 1 ELSE 0)
    + (IF Set(cfg.blcr_lib_path) THEN 1 ELSE 0)

\* C15: for every combination of MVAPICH2 options configure_step appends, in one
\* update made before the parent configure_step runs, a flag list that always
\* holds --with-rdma=<rdma_type>, --with-thread-package=pthreads, --enable-shared,
\* --enable-sharedlibs=gcc, --enable-f77, --enable-fc, --enable-cxx, holds exactly
\* one of --enable-fast=none (debug) and --enable-fast (no debug), and holds each
\* of --enable-mpe, --enable-limic2, --enable-checkpointing with
\* --with-hydra-ckpointlib=blcr, --with-hwloc, --with-blcr=, --with-blcr-include=,
\* --with-blcr-libpath= iff its option is set; the list holds nothing else.
C15_MvapichFlagList ==
    [][ ConfigureStepOf("MVAPICH2") =>
          LET D == Appended
              inner == SubSeq(D, 2, Len(D) - 1)
              has(f) == HasFlag(D, f)
          IN  /\ SubSeq(cfg'.configopts, 1, Len(cfg.configopts)) = cfg.configopts
              /\ Len(D) >= 3 /\ D[1] = " " /\ D[Len(D)] = " "
              /\ ~Contains(inner, <<" ", " ">>)
              /\ inner[1] # " " /\ inner[Len(inner)] # " "
              /\ Len(SelectSeq(inner, LAMBDA a : a = " ")) + 1 = 8 + OptionalFlagCount
              /\ Len(cmds') = Len(cmds) + 1
              /\ EndsWith(cmds'[Len(cmds')], cfg'.configopts)
              /\ has(<<"--with-rdma=", cfg.rdma_type>>)
              /\ \A f \in {"--with-thread-package=pthreads", "--enable-shared",
                           "--enable-sharedlibs=gcc", "--enable-f77", "--enable-fc",
                           "--enable-cxx"} : has(<<f>>)
              /\ has(<<"--enable-fast=none">>) <=> cfg.debug
              /\ has(<<"--enable-fast">>) <=> ~cfg.debug
              /\ has(<<"--enable-mpe">>) <=> cfg.withmpe
              /\ has(<<"--enable-limic2">>) <=> cfg.withlimic2
              /\ has(<<"--enable-checkpointing">>) <=> cfg.withchkpt
              /\ has(<<"--with-hydra-ckpointlib=blcr">>) <=> cfg.withchkpt
              /\ has(<<"--with-hwloc">>) <=> cfg.withhwloc
              /\ IF Set(cfg.blcr_path) THEN has(<<"--with-blcr=", cfg.blcr_path>>)
                 ELSE ~Contains(D, <<"--with-blcr=">>)
              /\ IF Set(cfg.blcr_inc_path) THEN has(<<"--with-blcr-include=", cfg.blcr_inc_path>>)
                 ELSE ~Contains(D, <<"--with-blcr-include=">>)
              /\ IF Set(cfg.blcr_lib_path) THEN has(<<"--with-blcr-libpath=", cfg.blcr_lib_path>>)
                 ELSE ~Contains(D, <<"--with-blcr-libpath=">>) ]_vars

\* a debug build with checkpointing and BLCR's include path alone was configured
C15_Witness ==
    /\ pkg = "MVAPICH2"
    /\ calls = 1
    /\ cfg.debug /\ cfg.withchkpt /\ ~cfg.withmpe
    /\ cfg.blcr_path = None /\ cfg.blcr_inc_path # None
    /\ HasFlag(cfg.configopts, <<"--enable-fast=none">>)
    /\ HasFlag(cfg.configopts, <<"--with-hydra-ckpointlib=blcr">>)
    /\ HasFlag(cfg.configopts, <<"--with-blcr-include=", cfg.blcr_inc_path>>)
    /\ ~Contains(cfg.configopts, <<"--with-blcr=">>)
    /\ Len(cmds) = 1

====
